---- MODULE Spec2Model ----
(***************************************************************************)
(* A model of timekeep.py: a command-line time tracker that keeps a table  *)
(* time_entries(id, label, start_time, end_time) in an SQLite file and     *)
(* offers the commands start, stop and hours.                              *)
(*                                                                         *)
(* Spec      one command at a time (each run of main() is one step).       *)
(* SpecConc  two processes run main() against the same file and interleave *)
(*           at the granularity of their SQL statements.                   *)
(***************************************************************************)
EXTENDS Integers, Sequences, FiniteSets, TLC

\* ---------------------------------------------------------------- bounds
MaxEntries == 2          \* rows the table may hold in the model
MaxTick == 3             \* the clock takes the instants Instant(0 .. MaxTick)
DaysPerMonth == 2        \* days of a month of the model's calendar

\* ------------------------------------------------------------- constants
MonthsPerYear == 12
HoursPerDay == 24

Labels == {"", "work", "writing"}     \* values given to -l ("" is falsy)
MonthArgs == (0 - 1) .. 13            \* values given to -m
DaysPerYear == MonthsPerYear * DaysPerMonth

\* The instants at which commands run, in days since the first day of year
\* 0: each year the first and second day of month 1 and the first day of
\* month 10, in order of time.
Offsets == << 0, 1, 9 * DaysPerMonth >>
Instant(k) == (k \div 3) * DaysPerYear + Offsets[(k % 3) + 1]
Times == { Instant(k) : k \in 0 .. MaxTick }
Procs == {1, 2}
NULL == <<>>                          \* SQL NULL

VARIABLES
    tableExists,   \* the table time_entries exists in the file
    entries,       \* the rows of time_entries, in rowid order
    seq,           \* sqlite_sequence: the largest id AUTOINCREMENT has given
    clock,         \* the wall clock (datetime.now()), in days
    out,           \* what the last command printed
    outMonth,      \* the month named in what it printed (0: none)
    results,       \* the rows the last hours command fetched
    exitCode,      \* exit status of the last command
    pc,            \* SpecConc: the position of each process in start_time
    plabel         \* SpecConc: the label of each process inside start_time

vars == <<tableExists, entries, seq, clock, out, outMonth, results, exitCode, pc, plabel>>

\* ------------------------------------------------- dates and conversions
\* datetime.now().isoformat(): the instant t as the text YYYY-MM-DD...,
\* kept as the tuple <<year, month, day>>.
isoformat(t) ==
    << t \div DaysPerYear,
       ((t \div DaysPerMonth) % MonthsPerYear) + 1,
       (t % DaysPerMonth) + 1 >>

\* julianday(text): the day number of a stored timestamp.
julianday(s) ==
    ((s[1] * MonthsPerYear) + (s[2] - 1)) * DaysPerMonth + (s[3] - 1)

\* strftime('%m', text): the month as two decimal digits.
strftime_m(s) == << s[2] \div 10, s[2] % 10 >>

\* str(n) of a non-negative integer below 100, as its decimal digits.
str(n) == IF n < 10 THEN << n >> ELSE << n \div 10, n % 10 >>

\* mutant of zfill2: no padding.
zfill2_NoPad(s) == s

\* text.zfill(2): pad with zeros on the left up to two characters.
zfill2(s) == IF Len(s) < 2 THEN << 0 >> \o s ELSE s

\* ------------------------------------------------------------ statements
\* mutant of ActiveIds: the query without "AND end_time IS NULL".
ActiveIds_IgnoreEnd(es, label) ==
    { i \in 1 .. Len(es) : es[i].label = label }

\* SELECT id FROM time_entries WHERE label = ? AND end_time IS NULL
ActiveIds(es, label) ==
    { i \in 1 .. Len(es) : es[i].label = label /\ es[i].end_time = NULL }

\* mutant of InsertEntry: the row is stored with end_time = start_time.
InsertEntry_Closed(es, id, label, t) ==
    Append(es, [id |-> id, label |-> label,
                start_time |-> isoformat(t), end_time |-> isoformat(t)])

\* INSERT INTO time_entries (label, start_time) VALUES (?, ?)
InsertEntry(es, id, label, t) ==
    Append(es, [id |-> id, label |-> label,
                start_time |-> isoformat(t), end_time |-> NULL])

\* mutant of UpdateEnd: the statement without "AND end_time IS NULL".
UpdateEnd_AnyRow(es, label, t) ==
    [ i \in 1 .. Len(es) |->
        IF es[i].label = label
        THEN [es[i] EXCEPT !.end_time = isoformat(t)]
        ELSE es[i] ]

\* mutant of UpdateEnd: the statement without "label = ?".
UpdateEnd_AnyLabel(es, label, t) ==
    [ i \in 1 .. Len(es) |->
        IF es[i].end_time = NULL
        THEN [es[i] EXCEPT !.end_time = isoformat(t)]
        ELSE es[i] ]

\* mutant of UpdateEnd: end_time is set to the start_time of the row.
UpdateEnd_StartValue(es, label, t) ==
    [ i \in 1 .. Len(es) |->
        IF es[i].label = label /\ es[i].end_time = NULL
        THEN [es[i] EXCEPT !.end_time = es[i].start_time]
        ELSE es[i] ]

\* mutant of UpdateEnd: the statement sets start_time as well.
UpdateEnd_StartColumn(es, label, t) ==
    [ i \in 1 .. Len(es) |->
        IF es[i].label = label /\ es[i].end_time = NULL
        THEN [es[i] EXCEPT !.start_time = isoformat(t), !.end_time = isoformat(t)]
        ELSE es[i] ]

\* UPDATE time_entries SET end_time = ? WHERE label = ? AND end_time IS NULL
UpdateEnd(es, label, t) ==
    [ i \in 1 .. Len(es) |->
        IF es[i].label = label /\ es[i].end_time = NULL
        THEN [es[i] EXCEPT !.end_time = isoformat(t)]
        ELSE es[i] ]

\* cursor.rowcount after the UPDATE
RowCount(es, label) == Cardinality(ActiveIds(es, label))

\* the rows the query of get_hours selects
Selected(es, month) ==
    LET param == zfill2(str(month))
    IN  { i \in 1 .. Len(es) :
            /\ strftime_m(es[i].start_time) = param
            /\ es[i].end_time # NULL }

\* mutant of RowHours: the difference is taken the other way round.
RowHours_Swapped(e) ==
    (julianday(e.start_time) - julianday(e.end_time)) * HoursPerDay

\* (julianday(end_time) - julianday(start_time)) * 24 of one row
RowHours(e) == (julianday(e.end_time) - julianday(e.start_time)) * HoursPerDay

RECURSIVE SumHours(_, _, _)
\* SUM(...) over the rows i .. Len(es) of es that are in S
SumHours(es, S, i) ==
    IF i > Len(es) THEN 0
    ELSE (IF i \in S THEN RowHours(es[i]) ELSE 0) + SumHours(es, S, i + 1)

\* mutant of Query: the query without GROUP BY, one row for all the
\* selected rows.
Query_NoGroupBy(es, month) ==
    LET sel == Selected(es, month)
    IN  IF sel = {} THEN {}
        ELSE { << es[CHOOSE i \in sel : \A j \in sel : i <= j].label,
                  SumHours(es, sel, 1) >> }

\* SELECT label, SUM(...) ... GROUP BY label: one row per label that has a
\* selected row (the order of the groups is left to SQLite).
Query(es, month) ==
    LET sel == Selected(es, month)
    IN  { << l, SumHours(es, { i \in sel : es[i].label = l }, 1) >> :
            l \in { es[i].label : i \in sel } }

\* ------------------------------------------------------------- functions
Init ==
    /\ tableExists = FALSE
    /\ entries = << >>
    /\ seq = 0
    /\ clock = 0
    /\ out = "none"
    /\ outMonth = 0
    /\ results = {}
    /\ exitCode = 0
    /\ pc = [p \in Procs |-> "idle"]
    /\ plabel = [p \in Procs |-> ""]

\* mutant of CreateTable: the table is dropped and created again.
CreateTable_Recreate(exists, es) == << >>

\* CREATE TABLE IF NOT EXISTS time_entries (...): an existing table keeps
\* its rows, a new one is empty.
CreateTable(exists, es) == IF exists THEN es ELSE << >>

\* the rows of the table once init_db has run: what the statements of
\* start_time, stop_time and get_hours work on
Rows == CreateTable(tableExists, entries)

\* init_db(): afterwards the table exists.
init_db == tableExists' = TRUE

\* datetime.now(): wall-clock time passes between two commands.
Tick == /\ \E t \in Times : t > clock /\ clock' = t
        /\ UNCHANGED <<tableExists, entries, seq, out, outMonth, results, exitCode, pc, plabel>>

\* mutant of start_time: no check for an active session.
start_time_NoCheck(label, now) ==
    /\ Len(Rows) < MaxEntries
    /\ entries' = InsertEntry(Rows, seq + 1, label, now)
    /\ seq' = seq + 1
    /\ out' = "Started"

\* mutant of start_time: the error is printed but the function goes on.
start_time_NoReturn(label, now) ==
    /\ Len(Rows) < MaxEntries
    /\ entries' = InsertEntry(Rows, seq + 1, label, now)
    /\ seq' = seq + 1
    /\ out' = IF ActiveIds(Rows, label) # {} THEN "ErrorActive" ELSE "Started"

start_time(label, now) ==
    IF ActiveIds(Rows, label) # {}
    THEN /\ out' = "ErrorActive"
         /\ entries' = Rows
         /\ UNCHANGED seq
    ELSE /\ Len(Rows) < MaxEntries
         /\ entries' = InsertEntry(Rows, seq + 1, label, now)
         /\ seq' = seq + 1
         /\ out' = "Started"

\* mutant of stop_time: the test of rowcount is inverted.
stop_time_WrongMessage(label, now) ==
    /\ entries' = UpdateEnd(Rows, label, now)
    /\ out' = IF RowCount(Rows, label) # 0 THEN "ErrorNoActive" ELSE "Stopped"
    /\ UNCHANGED seq

stop_time(label, now) ==
    /\ entries' = UpdateEnd(Rows, label, now)
    /\ out' = IF RowCount(Rows, label) = 0 THEN "ErrorNoActive" ELSE "Stopped"
    /\ UNCHANGED seq

\* mutant of get_hours: running sessions are closed at their start time
\* before the query.
get_hours_Closing(month) ==
    /\ entries' = [ i \in 1 .. Len(Rows) |->
                      IF Rows[i].end_time = NULL
                      THEN [Rows[i] EXCEPT !.end_time = Rows[i].start_time]
                      ELSE Rows[i] ]
    /\ outMonth' = month
    /\ results' = Query(entries', month)
    /\ out' = IF results' = {} THEN "NoEntries" ELSE "Hours"
    /\ UNCHANGED seq

get_hours(month) ==
    /\ entries' = Rows
    /\ UNCHANGED seq
    /\ outMonth' = month
    /\ results' = Query(Rows, month)
    /\ out' = IF results' = {} THEN "NoEntries" ELSE "Hours"

\* main() with action = "start"
MainStart(label) ==
    /\ UNCHANGED <<clock, pc, plabel>>
    /\ init_db
    /\ results' = {}
    /\ outMonth' = 0
    /\ IF label = ""
       THEN /\ out' = "ErrorLabel"
            /\ exitCode' = 1
            /\ entries' = Rows
            /\ UNCHANGED seq
       ELSE /\ start_time(label, clock)
            /\ exitCode' = 0

\* main() with action = "stop"
MainStop(label) ==
    /\ UNCHANGED <<clock, pc, plabel>>
    /\ init_db
    /\ results' = {}
    /\ outMonth' = 0
    /\ IF label = ""
       THEN /\ out' = "ErrorLabel"
            /\ exitCode' = 1
            /\ entries' = Rows
            /\ UNCHANGED seq
       ELSE /\ stop_time(label, clock)
            /\ exitCode' = 0

\* mutant of MainHours: the range test starts at 0 and "not args.month" is
\* missing.
MainHours_ZeroOk(month) ==
    /\ UNCHANGED <<clock, pc, plabel>>
    /\ init_db
    /\ IF ~(0 <= month /\ month <= 12)
       THEN /\ out' = "ErrorMonth"
            /\ outMonth' = 0
            /\ results' = {}
            /\ exitCode' = 1
            /\ entries' = Rows
            /\ UNCHANGED seq
       ELSE /\ get_hours(month)
            /\ exitCode' = 0

\* main() with action = "hours"
MainHours(month) ==
    /\ UNCHANGED <<clock, pc, plabel>>
    /\ init_db
    /\ IF month = 0 \/ ~(1 <= month /\ month <= 12)
       THEN /\ out' = "ErrorMonth"
            /\ outMonth' = 0
            /\ results' = {}
            /\ exitCode' = 1
            /\ entries' = Rows
            /\ UNCHANGED seq
       ELSE /\ get_hours(month)
            /\ exitCode' = 0

Start == \E l \in Labels : MainStart(l)
Stop == \E l \in Labels : MainStop(l)
Hours == \E m \in MonthArgs : MainHours(m)

Next == Tick \/ Start \/ Stop \/ Hours

Spec == Init /\ [][Next]_vars

\* ------------------------------------------- two processes, one database
\* Process p runs main() with action = "start" up to the end of the SELECT
\* of start_time: the SELECT runs outside any transaction.
StartCheck ==
    \E p \in Procs, label \in Labels :
        /\ pc[p] = "idle"
        /\ init_db
        /\ IF label = ""
           THEN /\ out' = "ErrorLabel"
                /\ exitCode' = 1
                /\ results' = {}
                /\ outMonth' = 0
                /\ UNCHANGED <<pc, plabel>>
           ELSE IF ActiveIds(Rows, label) # {}
           THEN /\ out' = "ErrorActive"
                /\ exitCode' = 0
                /\ results' = {}
                /\ outMonth' = 0
                /\ UNCHANGED <<pc, plabel>>
           ELSE /\ pc' = [pc EXCEPT ![p] = "insert"]
                /\ plabel' = [plabel EXCEPT ![p] = label]
                /\ UNCHANGED <<out, outMonth, results, exitCode>>
        /\ entries' = Rows
        /\ UNCHANGED <<seq, clock>>

\* Process p reads the clock, runs the INSERT of start_time and commits.
StartInsert ==
    \E p \in Procs :
        /\ pc[p] = "insert"
        /\ Len(entries) < MaxEntries
        /\ entries' = InsertEntry(entries, seq + 1, plabel[p], clock)
        /\ seq' = seq + 1
        /\ out' = "Started"
        /\ exitCode' = 0
        /\ pc' = [pc EXCEPT ![p] = "idle"]
        /\ plabel' = [plabel EXCEPT ![p] = ""]
        /\ results' = {}
        /\ outMonth' = 0
        /\ UNCHANGED <<tableExists, clock>>

\* stop and hours run one statement each, so a whole run is one step.
NextConc == Tick \/ StartCheck \/ StartInsert \/ Stop \/ Hours

SpecConc == Init /\ [][NextConc]_vars

\* ================================================================ claims
OpenEntries(es, label) ==
    { i \in 1 .. Len(es) : es[i].label = label /\ es[i].end_time = NULL }
Open(es, label) == Cardinality(OpenEntries(es, label))
Closed(es, label) ==
    { i \in 1 .. Len(es) : es[i].label = label /\ es[i].end_time # NULL }
ReportMonths == 1 .. 12

\* C1: in every state reachable from the empty store by start, stop and
\* hours commands run one at a time, every label has at most one entry
\* whose end_time is absent.
C1_AtMostOneOpen == \A l \in Labels : Open(entries, l) <= 1

\* C1 witness: a label with a closed entry and, started again, an open one.
C1_Witness ==
    \E l \in Labels : Open(entries, l) = 1 /\ Closed(entries, l) # {}

\* C2: a start of a label that has an open entry prints the "active session"
\* error and leaves the rows as they were, so the label still has exactly
\* one open entry.
C2_StartRejected ==
    [][ \A l \in Labels :
          (MainStart(l) /\ Open(entries, l) > 0)
          => /\ out' = "ErrorActive"
             /\ entries' = entries
             /\ seq' = seq
             /\ Open(entries', l) = 1 ]_vars

\* C2 witness: the error was printed and the label's open entry is there.
C2_Witness ==
    /\ out = "ErrorActive"
    /\ \E l \in Labels : Open(entries, l) = 1

\* C3: a stop of a label that has no open entry prints the "no active
\* session" error and leaves the rows as they were.
C3_StopRejected ==
    [][ \A l \in Labels \ {""} :
          (MainStop(l) /\ Open(entries, l) = 0)
          => /\ out' = "ErrorNoActive"
             /\ entries' = entries
             /\ seq' = seq ]_vars

\* C3 witness: the error was printed for a label whose every start was
\* matched by a stop at an earlier time.
C3_Witness ==
    /\ out = "ErrorNoActive"
    /\ \E i \in 1 .. Len(entries) :
          /\ entries[i].end_time # NULL
          /\ julianday(entries[i].end_time) < clock
    /\ \A l \in Labels : Open(entries, l) = 0

\* C4: a label whose sessions are all closed can be started again: the
\* start prints the confirmation and appends one open entry of that label,
\* and the rows that were there stay as they were.
C4_StartAgain ==
    [][ \A l \in Labels \ {""} :
          (MainStart(l) /\ Open(entries, l) = 0 /\ Closed(entries, l) # {})
          => /\ out' = "Started"
             /\ Len(entries') = Len(entries) + 1
             /\ entries'[Len(entries')].label = l
             /\ entries'[Len(entries')].end_time = NULL
             /\ \A i \in 1 .. Len(entries) : entries'[i] = entries[i] ]_vars

\* C4 witness: start, stop, start of one label: a closed entry followed by
\* an open one.
C4_Witness ==
    /\ out = "Started"
    /\ Len(entries) = 2
    /\ entries[1].label = entries[2].label
    /\ entries[1].end_time # NULL
    /\ entries[2].end_time = NULL

\* C5: a start or stop that printed an error ends with a non-zero exit
\* status, and one that printed its confirmation ends with status 0.
C5_ExitStatus ==
    /\ out \in {"ErrorActive", "ErrorNoActive"} => exitCode # 0
    /\ out \in {"Started", "Stopped"} => exitCode = 0

\* C6: a stop of a label that has several open entries sets end_time on
\* exactly one of them or reports a consistency violation; it never closes
\* several open entries at once.
C6_StopClosesOne ==
    [][ \A l \in Labels :
          (MainStop(l) /\ Open(entries, l) > 1)
          => \/ Cardinality({ i \in 1 .. Len(entries) : entries'[i] # entries[i] }) = 1
             \/ out' = "ConsistencyViolation" ]_vars

\* C7: an end_time that has been set is never changed or cleared by a
\* later command.
C7_EndTimeKept ==
    [][ \A i \in 1 .. Len(entries) :
          entries[i].end_time # NULL
          => /\ i <= Len(entries')
             /\ entries'[i].end_time = entries[i].end_time ]_vars

\* C7 witness: a label stopped twice, the second time later than the first:
\* the second stop ran while the first entry was closed.
C7_Witness ==
    /\ out = "Stopped"
    /\ Len(entries) = 2
    /\ entries[1].label = entries[2].label
    /\ entries[1].end_time # NULL
    /\ entries[2].end_time # NULL
    /\ julianday(entries[1].end_time) < julianday(entries[2].end_time)

\* C8: the table is an append-only log: no command removes a row or changes
\* the id, label or start_time of a row.
C8_AppendOnly ==
    [][ /\ Len(entries') >= Len(entries)
        /\ \A i \in 1 .. Len(entries) :
              /\ entries'[i].id = entries[i].id
              /\ entries'[i].label = entries[i].label
              /\ entries'[i].start_time = entries[i].start_time ]_vars

\* C8 witness: a row that was stopped later than it was started, with a
\* second row appended after it.
C8_Witness ==
    /\ Len(entries) = 2
    /\ entries[1].end_time # NULL
    /\ entries[1].end_time # entries[1].start_time
    /\ entries[1].id = 1
    /\ entries[2].id = 2

\* C9: an hours command for a month in 1..12 changes no row, whether or not
\* a row matches: a step that changes a row is not a step of such a command.
C9_ReportReadOnly ==
    [][ (entries' # entries \/ seq' # seq)
        => ~ \E m \in ReportMonths : MainHours(m) ]_vars

\* C9 witness: a report with a row in it was printed while another session
\* was running.
C9_Witness ==
    /\ out = "Hours"
    /\ results # {}
    /\ \E i \in 1 .. Len(entries) : entries[i].end_time = NULL

\* C10: for a month m in 1..12 a label is in the report exactly when it has
\* a closed entry whose start_time lies in month m, whatever the year of
\* start_time and the month of end_time; running sessions do not count, and
\* the report is empty when there is no such entry. (outMonth is the month
\* the last command reported on; the rows are those it read.)
C10_ReportLabels ==
    out \in {"Hours", "NoEntries"}
    => /\ outMonth \in ReportMonths
       /\ \A l \in Labels :
            (\E r \in results : r[1] = l)
            <=> (\E i \in 1 .. Len(entries) :
                   /\ entries[i].label = l
                   /\ entries[i].end_time # NULL
                   /\ entries[i].start_time[2] = outMonth)
       /\ (out = "NoEntries") <=> (results = {})

\* C10 witness: a report lists a label that has two closed entries started
\* in the same month of different years, one of them stopped in a later
\* month.
C10_Witness ==
    /\ out = "Hours"
    /\ outMonth = entries[1].start_time[2]
    /\ Len(entries) = 2
    /\ entries[1].label = entries[2].label
    /\ entries[1].end_time # NULL
    /\ entries[2].end_time # NULL
    /\ entries[1].start_time[2] = entries[2].start_time[2]
    /\ entries[1].start_time[1] # entries[2].start_time[1]
    /\ entries[1].end_time[2] # entries[1].start_time[2]
    /\ \E r \in results : r[1] = entries[1].label

\* the day on which a stored timestamp lies, and the hours from the
\* start_time to the end_time of a closed row
DayOf(ts) == (ts[1] * 12 + (ts[2] - 1)) * DaysPerMonth + (ts[3] - 1)
Elapsed(e) == (DayOf(e.end_time) - DayOf(e.start_time)) * 24

RECURSIVE TotalFrom(_, _, _, _)
\* the hours of the closed rows i .. Len(es) of label l started in month m
TotalFrom(es, l, m, i) ==
    IF i > Len(es) THEN 0
    ELSE (IF es[i].label = l /\ es[i].end_time # NULL /\ es[i].start_time[2] = m
          THEN Elapsed(es[i]) ELSE 0)
         + TotalFrom(es, l, m, i + 1)

\* C11: a report holds each label at most once, and the value of a label is
\* the sum of end_time - start_time over that label's closed entries started
\* in the reported month; entries of other labels do not count. (Hours are
\* whole numbers in the model; rounding of the floating-point sum is not
\* modelled.)
C11_ReportSums ==
    out \in {"Hours", "NoEntries"}
    => /\ \A r1, r2 \in results : r1[1] = r2[1] => r1 = r2
       /\ \A r \in results : r[2] = TotalFrom(entries, r[1], outMonth, 1)

\* C11 witness: a report with two labels, each with its own total.
C11_Witness ==
    /\ out = "Hours"
    /\ \E r1, r2 \in results :
          r1[1] # r2[1] /\ r1[2] > 0 /\ r2[2] > 0 /\ r1[2] # r2[2]

\* C12: an hours command with a month outside 1..12 (0 and negative values
\* included) prints the validation error and exits with status 1, and the
\* query of get_hours does not run: nothing is reported for such a month.
C12_MonthValidated ==
    [][ \A m \in MonthArgs \ ReportMonths :
          MainHours(m)
          => /\ out' = "ErrorMonth"
             /\ exitCode' # 0
             /\ outMonth' = 0
             /\ results' = {} ]_vars

\* C12 witness: the validation error was printed, with status 1, on a table
\* that holds a closed row.
C12_Witness ==
    /\ out = "ErrorMonth"
    /\ exitCode = 1
    /\ \E i \in 1 .. Len(entries) : entries[i].end_time # NULL

\* a run of main() that stops at the validation of its arguments: init_db is
\* the only call it makes
InitOnly ==
    \/ MainStart("")
    \/ MainStop("")
    \/ \E m \in MonthArgs \ ReportMonths : MainHours(m)

\* C13: init_db on a table that exists keeps the table and every row of it,
\* so the state after a further call is the state before it, and the
\* commands that follow behave as after one call.
C13_InitIdempotent ==
    [][ (tableExists /\ InitOnly)
        => /\ tableExists'
           /\ entries' = entries
           /\ seq' = seq ]_vars

\* C13 witness: init_db alone ran on a table with an open and a closed row.
C13_Witness ==
    /\ tableExists
    /\ out \in {"ErrorLabel", "ErrorMonth"}
    /\ \E i \in 1 .. Len(entries) : entries[i].end_time = NULL
    /\ \E i \in 1 .. Len(entries) : entries[i].end_time # NULL

\* C14: when two runs of start for one label interleave between the SELECT
\* and the INSERT, at most one of them inserts: no two open rows share a
\* label.
C14_AtomicStart ==
    \A i, j \in 1 .. Len(entries) :
        (/\ entries[i].label = entries[j].label
         /\ entries[i].end_time = NULL
         /\ entries[j].end_time = NULL) => i = j

\* C15: a command rejected at the validation of its arguments has not
\* touched the store: neither the table nor a row was created or changed.
C15_ValidationFirst ==
    [][ InitOnly => UNCHANGED <<tableExists, entries, seq>> ]_vars

\* the rows of es that differ from the rows of es2 at the same place
Changed(es, es2) == { i \in 1 .. Len(es) : i > Len(es2) \/ es2[i] # es[i] }

\* C16: a start of a label that has no open entry prints the confirmation
\* and its only effect on the rows is one new row with that label, a fresh
\* id, start_time the current time and no end_time; the count grows by one
\* and the rows that were there stay as they were.
C16_StartInserts ==
    [][ \A l \in Labels \ {""} :
          (MainStart(l) /\ Open(entries, l) = 0)
          => /\ out' = "Started"
             /\ exitCode' = 0
             /\ Len(entries') = Len(entries) + 1
             /\ SubSeq(entries', 1, Len(entries)) = entries
             /\ LET e == entries'[Len(entries')]
                IN  /\ e.label = l
                    /\ DayOf(e.start_time) = clock
                    /\ e.end_time = NULL
                    /\ \A i \in 1 .. Len(entries) : entries[i].id # e.id ]_vars

\* C16 witness: a label was started later than another label that is still
\* running.
C16_Witness ==
    /\ out = "Started"
    /\ Len(entries) = 2
    /\ entries[1].label # entries[2].label
    /\ entries[1].end_time = NULL
    /\ entries[2].end_time = NULL
    /\ DayOf(entries[2].start_time) = clock
    /\ DayOf(entries[1].start_time) < clock

\* C17: with one command at a time, a stop of a label that has an open entry
\* prints the confirmation and sets end_time to the current time on exactly
\* one row, the open row of the label (the UPDATE counts 1 row); afterwards
\* the label has no open entry.
C17_StopClosesTheOpenRow ==
    [][ \A l \in Labels \ {""} :
          (MainStop(l) /\ Open(entries, l) > 0)
          => /\ out' = "Stopped"
             /\ Len(entries') = Len(entries)
             /\ Cardinality(Changed(entries, entries')) = 1
             /\ Changed(entries, entries') = OpenEntries(entries, l)
             /\ \A i \in Changed(entries, entries') :
                   /\ entries'[i].end_time # NULL
                   /\ DayOf(entries'[i].end_time) = clock
             /\ Open(entries', l) = 0 ]_vars

\* C17 witness: a row was stopped later than it was started, the command
\* just before being that stop.
C17_Witness ==
    /\ out = "Stopped"
    /\ \E i \in 1 .. Len(entries) :
          /\ entries[i].end_time # NULL
          /\ DayOf(entries[i].end_time) = clock
          /\ DayOf(entries[i].start_time) < clock
          /\ Open(entries, entries[i].label) = 0

\* C18: labels are independent: a start or stop of label l changes no row
\* of another label, and whether it is accepted or rejected is decided by
\* the rows of l alone (by whether l has an open row), whatever the rows of
\* the other labels are.
C18_LabelsIndependent ==
    [][ \A l \in Labels \ {""} :
          /\ (MainStart(l) \/ MainStop(l))
             => \A i \in 1 .. Len(entries) :
                  entries[i].label # l
                  => i <= Len(entries') /\ entries'[i] = entries[i]
          /\ MainStart(l)
             => /\ out' = "ErrorActive" <=> Open(entries, l) > 0
                /\ out' = "Started" <=> Open(entries, l) = 0
          /\ MainStop(l)
             => /\ out' = "ErrorNoActive" <=> Open(entries, l) = 0
                /\ out' = "Stopped" <=> Open(entries, l) > 0 ]_vars

\* C18 witness: a label was stopped while another label, started earlier,
\* went on running.
C18_Witness ==
    /\ out = "Stopped"
    /\ Len(entries) = 2
    /\ entries[1].label # entries[2].label
    /\ entries[1].end_time = NULL
    /\ entries[2].end_time # NULL
    /\ DayOf(entries[2].end_time) = clock
    /\ DayOf(entries[1].start_time) < clock

\* C19: with a clock that never goes backwards (Tick only moves it forward)
\* the totals of the report are monotone: for every month in 1..12 no value
\* of the report is negative, and a step that changes the rows keeps every
\* label of the report in it with a value that is not smaller.
C19_TotalsMonotone ==
    [][ entries' # entries
        => \A m \in ReportMonths :
             /\ \A r2 \in Query(entries', m) : r2[2] >= 0
             /\ \A r \in Query(entries, m) :
                   \E r2 \in Query(entries', m) :
                       r2[1] = r[1] /\ r2[2] >= r[2] ]_vars

\* C19 witness: a report of a label with two closed rows of the same month,
\* each longer than nothing: its total grew twice.
C19_Witness ==
    /\ out = "Hours"
    /\ Len(entries) = 2
    /\ entries[1].label = entries[2].label
    /\ entries[1].end_time # NULL
    /\ entries[2].end_time # NULL
    /\ entries[1].start_time[2] = outMonth
    /\ entries[2].start_time[2] = outMonth
    /\ Elapsed(entries[1]) > 0
    /\ Elapsed(entries[2]) > 0
    /\ \E r \in results : r[2] = Elapsed(entries[1]) + Elapsed(entries[2])
====
